---- MODULE Spec2Model ----
(***************************************************************************)
(* Incremental lazy-hashing file comparison of dupe-krill:                 *)
(*   src/src/hasher.rs  HashedRange, Hasher, HashIter                      *)
(*   src/src/file.rs    FileContent (compare and the Ord family), FileSet  *)
(* Byte quantities are exact (bytes); the hash cache, the cursor, the      *)
(* descriptors of the call in flight and the files on disk are the state.  *)
(***************************************************************************)
EXTENDS Integers, Sequences, FiniteSets, TLC

(* ---------------- bounds of the model ---------------- *)
NumIds == 3
NumPaths == 2
\* FileSet: the largest hardlink count of stat and the most paths grouped
MaxHardlinks == 5
MaxSetPaths == 3

Ids == 1..NumIds
Paths == 1..NumPaths
Devs == {0, 1}
\* lengths of the files on disk: empty, less than the first chunk, two chunks
Sizes == {0, 1000, 3000}

(* ---------------- program constants ---------------- *)
InitialBufferSize == 2048
GrowthFactor == 16
MaxBufferSize == 134217728

Min(x, y) == IF x <= y THEN x ELSE y
Max(x, y) == IF x >= y THEN x ELSE y

VARIABLES
    disk,      \* Paths -> [dev, len, mark]: the file behind each path
    modified,  \* Paths -> BOOLEAN: the file changed after the identities were built
    ids,       \* Ids -> [path, metadata, hashes]: the FileContent instances
    iter,      \* the call of FileContent::compare in flight and its HashIter
    watch,     \* the results the history keeps (fixed at the start)
    last,      \* <<a, b>>, a # b -> the watched result compare(a, b) last
               \* returned, or "none"
    hashed,    \* Ids -> per index, how many times a range was read and hashed
    fileset    \* [max_hardlinks, paths]: a FileSet

vars == <<disk, modified, ids, iter, watch, last, hashed, fileset>>

(* ---------------- files ---------------- *)
\* A file is len bytes, all zero except a single byte 1 at offset mark
\* (mark = -1: no such byte).
MarksOf(len) ==
    IF len = 0 THEN {-1}
    ELSE IF len <= InitialBufferSize THEN {-1, len - 1}
    ELSE {-1, 0, len - 1}

FileKinds(lens) ==
    UNION {{[dev |-> d, len |-> l, mark |-> m] : d \in Devs, m \in MarksOf(l)} :
           l \in lens}

\* a digest that tells the number of bytes hashed and nothing of the bytes
HashOfLength(f, start, size) == <<Min(size, Max(0, f.len - start)), -1>>

\* The 20-byte blake3 digest of what the read loop of from_file feeds the
\* hasher when asked for [start, start + size): the loop stops at end of file
\* (read returning 0, hasher.rs:25), so n bytes are hashed.  The digest is
\* taken as collision-free and depends on the bytes alone, not on where they
\* were read: it is represented by the number of bytes hashed and the offset,
\* among them, of the nonzero byte.
HashOfRange(f, start, size) ==
    LET n == Min(size, Max(0, f.len - start))
    IN  <<n, IF f.mark >= start /\ f.mark < start + n THEN f.mark - start ELSE -1>>

\* The order of two digests as byte arrays: a fixed total order unrelated to
\* the order of the contents.
HashKey(h) == <<(h[1] + 3 * (h[2] + 1)) % 5, h[1], h[2]>>

LexCmp(s, t) ==
    IF \E k \in 1..Len(s) : s[k] # t[k]
    THEN LET k == CHOOSE j \in 1..Len(s) :
                      s[j] # t[j] /\ \A m \in 1..(j - 1) : s[m] = t[m]
         IN  IF s[k] < t[k] THEN "Less" ELSE "Greater"
    ELSE "Equal"

HashCmp(h1, h2) == LexCmp(HashKey(h1), HashKey(h2))

(* ---------------- HashedRange ---------------- *)
NoneRange == [some |-> FALSE, size |-> 0, hash |-> <<0, -1>>]
SomeRange(size, hash) == [some |-> TRUE, size |-> size, hash |-> hash]

\* an ordering of ranges that looks at the sizes only
RangeCmpSizeOnly(a, b) ==
    IF a.size < b.size THEN "Less"
    ELSE IF a.size > b.size THEN "Greater"
    ELSE "Equal"

\* #[derive(Ord)] on HashedRange: size first, then hash
RangeCmp(a, b) ==
    IF a.size < b.size THEN "Less"
    ELSE IF a.size > b.size THEN "Greater"
    ELSE HashCmp(a.hash, b.hash)

\* a from_file that records the number of bytes it read as the range's size
FromFileBytesRead(f, start, size, outcome) ==
    IF outcome = "ok"
    THEN [ok |-> TRUE,
          range |-> SomeRange(HashOfRange(f, start, size)[1], HashOfRange(f, start, size))]
    ELSE [ok |-> FALSE, range |-> NoneRange]

\* HashedRange::from_file once the descriptor is there: Err on a failed seek
\* or read, else the requested size with the digest of the bytes read
FromFile(f, start, size, outcome) ==
    IF outcome = "ok"
    THEN [ok |-> TRUE, range |-> SomeRange(size, HashOfRange(f, start, size))]
    ELSE [ok |-> FALSE, range |-> NoneRange]

\* a push that forgets a failed range instead of marking it
PushForgetsFailure(ranges, result) ==
    IF result.ok THEN Append(ranges, result.range) ELSE ranges

\* Hasher::push
Push(ranges, result) ==
    Append(ranges, IF result.ok THEN result.range ELSE NoneRange)

(* ---------------- FileSet ---------------- *)
\* FileSet::new
FileSetNew(path, max_hardlinks) ==
    [max_hardlinks |-> max_hardlinks, paths |-> <<path>>]

\* FileSet::push
FileSetPush(s, path) == [s EXCEPT !.paths = Append(@, path)]

\* a link count that forgets the hardlinks seen by stat
LinksAsCount(s) == Len(s.paths)

\* FileSet::links
Links(s) == Max(s.max_hardlinks, Len(s.paths))

(* ---------------- Metadata ---------------- *)
MetadataFromPath(f) == [dev |-> f.dev, size |-> f.len]

MetadataCmp(m1, m2) == LexCmp(<<m1.dev, m1.size>>, <<m2.dev, m2.size>>)

(* ---------------- FileContent ---------------- *)
\* Hasher::new
HasherNew == <<>>

\* FileContent::from_path
FileContentFromPath(p, f) ==
    [path |-> p, metadata |-> MetadataFromPath(f), hashes |-> HasherNew]

(* ---------------- HashIter ---------------- *)
\* No call in flight.  Besides the fields of HashIter the record holds the
\* position of the call (pc), its two arguments, its result once it has one,
\* whether both caches were empty when it started (fresh), and the opens and
\* from_file reads it has made on each side.
\* a_file / b_file: the LazyFile holds an open descriptor.
\* interrupts: the number of reads of the call that were interrupted and
\* retried, modulo 2.
NoIter ==
    [pc |-> "idle", a |-> 1, b |-> 1, res |-> "none", fresh |-> FALSE,
     index |-> 0, start_offset |-> 0, end_offset |-> 0, next_buffer_size |-> 0,
     a_file |-> FALSE, b_file |-> FALSE, opens |-> <<0, 0>>, reads |-> <<0, 0>>,
     interrupts |-> 0]

\* HashIter::new
HashIterNew(size, a, b, fresh) ==
    [NoIter EXCEPT !.pc = "next", !.a = a, !.b = b, !.fresh = fresh,
                   !.index = 0, !.start_offset = 0, !.end_offset = size,
                   !.next_buffer_size = InitialBufferSize]

\* a lookup that gives the first entry for every index
GetFirst(ranges, i) == ranges[1]

\* ranges.get(i), i counted from 0
Has(ranges, i) == i < Len(ranges)
Get(ranges, i) == ranges[i + 1]

\* a cursor that never consults the cache
MissingAlways(ranges, i) == TRUE

\* hasher.rs:94, a.is_none(): the cache has no entry at index i
Missing(ranges, i) == ~Has(ranges, i)

\* a cursor that never sees the end of the file
AtEndNever(it) == FALSE

\* a cursor that stops after the first range
AtEndAfterFirst(it) == it.index >= 1 \/ it.start_offset >= it.end_offset

\* hasher.rs:75
AtEnd(it) == it.start_offset >= it.end_offset

\* an error taken for the end of the ranges
CmpIoErrAsEqual == "Equal"

\* the io::Error of hasher.rs:86 and hasher.rs:115, as compare returns it
CmpIoErr == "Err"

\* a cursor that does not look for the failure marker
FailedNever(ar, br, i) == FALSE

\* hasher.rs:84
Failed(ar, br, i) ==
    \/ Has(ar, i) /\ ~Get(ar, i).some
    \/ Has(br, i) /\ ~Get(br, i).some

\* a chunk size that is not capped by the bytes left
ChunkSizeUncapped(ar, br, it) ==
    IF Has(ar, it.index) /\ Get(ar, it.index).some THEN Get(ar, it.index).size
    ELSE IF Has(br, it.index) /\ Get(br, it.index).some THEN Get(br, it.index).size
    ELSE it.next_buffer_size

\* hasher.rs:90-93: the size of the range at index i
ChunkSize(ar, br, it) ==
    IF Has(ar, it.index) /\ Get(ar, it.index).some THEN Get(ar, it.index).size
    ELSE IF Has(br, it.index) /\ Get(br, it.index).some THEN Get(br, it.index).size
    ELSE Min(it.end_offset - it.start_offset, it.next_buffer_size)

\* a buffer that grows by 8
NextBufferSizeSlow(size) == Min(size * 8, MaxBufferSize)

\* hasher.rs:111, min(size * 16, 128 MiB); the product is not formed when it
\* is at least the cap, which keeps it inside the checker's integers
NextBufferSize(size) ==
    IF size >= MaxBufferSize \div GrowthFactor THEN MaxBufferSize
    ELSE size * GrowthFactor

\* LazyFile::fd: the first call opens the file, later calls reuse the
\* descriptor.  Gives whether a descriptor is there afterwards and the number
\* of opens attempted.
LazyFileFd(isOpen, outcome) ==
    [file |-> isOpen \/ outcome # "open_err", opened |-> IF isOpen THEN 0 ELSE 1]

\* a from_file that opens the file again for every range
ComputeReopens(isOpen, f, start, size, outcome) ==
    LET fd == LazyFileFd(FALSE, outcome)
    IN  IF ~fd.file
        THEN [result |-> FromFile(f, start, size, "open_err"), file |-> FALSE,
              opened |-> fd.opened, read |-> 0]
        ELSE [result |-> FromFile(f, start, size, outcome), file |-> TRUE,
              opened |-> fd.opened, read |-> 1]

\* hasher.rs:18-19 and on: file.fd()? and then the seek and the reads of
\* from_file for one side.  outcome is what the operating system does: "ok",
\* "open_err" (only when an open is attempted) or "read_err" (seek or read
\* fails).  Gives [result, file (descriptor open afterwards), opened, read].
Compute(isOpen, f, start, size, outcome) ==
    LET fd == LazyFileFd(isOpen, outcome)
    IN  IF ~fd.file
        THEN [result |-> FromFile(f, start, size, "open_err"), file |-> FALSE,
              opened |-> fd.opened, read |-> 0]
        ELSE [result |-> FromFile(f, start, size, outcome), file |-> TRUE,
              opened |-> fd.opened, read |-> 1]

Outcomes == {"ok", "open_err", "read_err"}

(* ---------------- Ord family of FileContent ---------------- *)
\* an ordering that takes a failed comparison for equality
CmpErrAsEqual(res) == IF res = CmpIoErr THEN "Equal" ELSE res

\* file.rs:70-74, 77-81 and 63-68, applied to what compare returned
Cmp(res) == IF res = CmpIoErr THEN "Greater" ELSE res
PartialCmp(res) == IF res = CmpIoErr THEN "None" ELSE res
Eq(res) == PartialCmp(res) = "Equal"

Sign(o) == IF o = "Less" THEN -1 ELSE IF o = "Greater" THEN 1 ELSE 0

(* ---------------- state machine ---------------- *)
Pairs == {pr \in Ids \X Ids : pr[1] # pr[2]}

\* Identity i is built from path min(i, NumPaths): every path has an identity
\* and the last path has several.  The last path may be on another device
\* than the others.
PathOf(i) == Min(i, NumPaths)

Results == {"Less", "Equal", "Greater", CmpIoErr}

InitFiles(lens, watched) ==
    /\ disk \in [Paths -> FileKinds(lens)]
    /\ \A p \in Paths : p < NumPaths => disk[p].dev = 0
    /\ watch = watched
    /\ modified = [p \in Paths |-> FALSE]
    /\ ids = [i \in Ids |-> FileContentFromPath(PathOf(i), disk[PathOf(i)])]
    /\ iter = NoIter
    /\ last = [pr \in Pairs |-> "none"]
    /\ hashed = [i \in Ids |-> <<>>]

\* the files and their identities, and the set of the first path
InitWith(lens, watched) ==
    /\ InitFiles(lens, watched)
    /\ fileset = FileSetNew(PathOf(1), 1)

\* no history is kept
Init == InitWith(Sizes, {})

\* the call has its result; the cursor is still alive
Return(it, res) ==
    /\ iter' = [it EXCEPT !.pc = "returned", !.res = res]
    /\ last' = [pr \in Pairs |->
                   IF pr = <<it.a, it.b>> /\ res \in watch THEN res ELSE last[pr]]

\* a compare without the pointer comparison
SameInstanceNever(a, b) == FALSE

\* file.rs:86, the pointer comparison
SameInstance(a, b) == a = b

\* a compare that ignores the metadata ordering
ShortCircuitNever(cmp) == FALSE

\* file.rs:94
ShortCircuit(cmp) == cmp # "Equal"

\* FileContent::compare up to the first HashIter::next
Compare(a, b) ==
    /\ iter.pc = "idle"
    /\ LET it == [NoIter EXCEPT !.a = a, !.b = b]
           cmp == MetadataCmp(ids[a].metadata, ids[b].metadata)
       IN  IF SameInstance(a, b)
           THEN Return(it, "Equal")
           ELSE IF ShortCircuit(cmp)
           THEN Return(it, cmp)
           ELSE /\ iter' = HashIterNew(ids[a].metadata.size, a, b,
                                       ids[a].hashes = <<>> /\ ids[b].hashes = <<>>)
                /\ UNCHANGED last
    /\ UNCHANGED <<disk, modified, watch, ids, hashed, fileset>>

\* hashed[id] with one more hashing counted at index i
CountHash(h, i) ==
    LET padded == [k \in 1..Max(Len(h), i + 1) |-> IF k <= Len(h) THEN h[k] ELSE 0]
    IN  [padded EXCEPT ![i + 1] = @ + 1]

\* One turn of the loop of Hasher::compare: HashIter::next, then the
\* comparison of the two ranges it yields.  oa, ob: the outcome of the I/O on
\* each side, used only where that side's range has to be computed.
IterNext(oa, ob) ==
    /\ iter.pc = "next"
    /\ LET a == iter.a
           b == iter.b
           ar == ids[a].hashes
           br == ids[b].hashes
           i == iter.index
       IN
       IF AtEnd(iter)
       THEN /\ Return(iter, "Equal")
            /\ oa = "ok" /\ ob = "ok"
            /\ UNCHANGED <<ids, hashed>>
       ELSE IF Failed(ar, br, i)
       THEN /\ Return(iter, CmpIoErr)
            /\ oa = "ok" /\ ob = "ok"
            /\ UNCHANGED <<ids, hashed>>
       ELSE
         LET size == ChunkSize(ar, br, iter)
             a_none == Missing(ar, i)
             b_none == Missing(br, i)
             ca == Compute(iter.a_file, disk[ids[a].path], iter.start_offset, size, oa)
             cb == Compute(iter.b_file, disk[ids[b].path], iter.start_offset, size, ob)
             ar2 == IF a_none THEN Push(ar, ca.result) ELSE ar
             br2 == IF b_none THEN Push(br, cb.result) ELSE br
             it2 == [iter EXCEPT
                       !.index = i + 1,
                       !.start_offset = iter.start_offset + size,
                       !.next_buffer_size = NextBufferSize(size),
                       !.a_file = IF a_none THEN ca.file ELSE @,
                       !.b_file = IF b_none THEN cb.file ELSE @,
                       !.opens = <<@[1] + (IF a_none THEN ca.opened ELSE 0),
                                   @[2] + (IF b_none THEN cb.opened ELSE 0)>>,
                       !.reads = <<@[1] + (IF a_none THEN ca.read ELSE 0),
                                   @[2] + (IF b_none THEN cb.read ELSE 0)>>]
             found == Has(ar2, i) /\ Get(ar2, i).some /\ Has(br2, i) /\ Get(br2, i).some
         IN
         /\ IF a_none THEN oa = "open_err" => ~iter.a_file ELSE oa = "ok"
         /\ IF b_none THEN ob = "open_err" => ~iter.b_file ELSE ob = "ok"
         /\ ids' = [ids EXCEPT ![a].hashes = ar2, ![b].hashes = br2]
         /\ hashed' = [k \in Ids |->
                         IF k = a /\ a_none /\ ca.read = 1 THEN CountHash(hashed[a], i)
                         ELSE IF k = b /\ b_none /\ cb.read = 1 THEN CountHash(hashed[b], i)
                         ELSE hashed[k]]
         /\ IF ~found
            THEN Return(it2, CmpIoErr)
            ELSE IF RangeCmp(Get(ar2, i), Get(br2, i)) # "Equal"
            THEN Return(it2, RangeCmp(Get(ar2, i), Get(br2, i)))
            ELSE iter' = it2 /\ UNCHANGED last
    /\ UNCHANGED <<disk, modified, watch, fileset>>

\* The call returns to its caller: the cursor and with it the two LazyFiles
\* are dropped, which closes their descriptors.
Finish ==
    /\ iter.pc = "returned"
    /\ iter' = NoIter
    /\ UNCHANGED <<disk, modified, watch, ids, last, hashed, fileset>>

\* hasher.rs:35: a read of from_file fails with ErrorKind::Interrupted and the
\* loop reads again.  Possible while the cursor stands at an index where a
\* range has to be computed.
Interrupted ==
    /\ iter.pc = "next"
    /\ ~AtEnd(iter)
    /\ ~Failed(ids[iter.a].hashes, ids[iter.b].hashes, iter.index)
    /\ \/ Missing(ids[iter.a].hashes, iter.index)
       \/ Missing(ids[iter.b].hashes, iter.index)
    /\ iter' = [iter EXCEPT !.interrupts = (@ + 1) % 2]
    /\ UNCHANGED <<disk, modified, watch, ids, last, hashed, fileset>>

\* The environment shortens a file after its metadata was captured.
Truncate(p) ==
    /\ ~modified[p]
    /\ disk[p].len > 0
    /\ disk' = [disk EXCEPT ![p].len = @ \div 2,
                            ![p].mark = IF @ < disk[p].len \div 2 THEN @ ELSE -1]
    /\ modified' = [modified EXCEPT ![p] = TRUE]
    /\ UNCHANGED <<watch, ids, iter, last, hashed, fileset>>

\* The files are left alone while they are compared.
Next ==
    \/ \E a, b \in Ids : Compare(a, b)
    \/ \E oa, ob \in Outcomes : IterNext(oa, ob)
    \/ Finish

Spec == Init /\ [][Next]_vars

\* the same, with the Equal results remembered
InitEq == InitWith(Sizes, {"Equal"})
SpecEq == InitEq /\ [][Next]_vars

\* the same, with every result remembered
InitHist == InitWith(Sizes, Results)
SpecHist == InitHist /\ [][Next]_vars

\* The files may be shortened behind the identities' back.
NextEnv ==
    \/ \E a, b \in Ids : Compare(a, b)
    \/ \E oa, ob \in Outcomes : IterNext(oa, ob)
    \/ Finish
    \/ \E p \in Paths : Truncate(p)

SpecEnv == Init /\ [][NextEnv]_vars

\* Two identities, one per path, over larger files: three chunks, the 10 MiB
\* of the growth schedule's example, and a length that reaches the 128 MiB cap.
BigSizes == {40000, 10485760, 300000000}

InitBig == InitWith(BigSizes, Results)

\* Every identity, over files of three chunks; no history is kept.
DeepSizes == {40000}

InitDeep == InitWith(DeepSizes, {})

SpecDeep == InitDeep /\ [][Next]_vars

NextPair ==
    \/ \E a, b \in {1, 2} : Compare(a, b)
    \/ \E oa, ob \in Outcomes : IterNext(oa, ob)
    \/ Finish

SpecPair == InitBig /\ [][NextPair]_vars

\* A FileSet on its own: built from any path with any hardlink count, then
\* grown by paths found identical.  The files are empty and never compared.
InitSet ==
    /\ InitFiles({0}, {})
    /\ fileset \in {FileSetNew(p, h) : p \in Paths, h \in 0..MaxHardlinks}

PushPath(p) ==
    /\ Len(fileset.paths) < MaxSetPaths
    /\ fileset' = FileSetPush(fileset, p)
    /\ UNCHANGED <<disk, modified, watch, ids, iter, last, hashed>>

NextSet == \E p \in Paths : PushPath(p)

SpecSet == InitSet /\ [][NextSet]_vars

\* Two identities over the larger files, with reads that may be interrupted.
\* A call in flight keeps running: its cursor step is taken in the end, however
\* many reads are interrupted before, and it returns to its caller.
InitLive == InitWith(BigSizes, {})

NextLive ==
    \/ \E a, b \in {1, 2} : Compare(a, b)
    \/ \E oa, ob \in Outcomes : IterNext(oa, ob)
    \/ Interrupted
    \/ Finish

SpecLive ==
    /\ InitLive /\ [][NextLive]_vars
    /\ WF_vars(\E oa, ob \in Outcomes : IterNext(oa, ob))
    /\ WF_vars(Finish)

\* the same without the assumption on interruptions
SpecLiveUnfair == InitLive /\ [][NextLive]_vars

\* The files may be shortened, and no open, seek or read fails.
NextShort ==
    \/ \E a, b \in Ids : Compare(a, b)
    \/ IterNext("ok", "ok")
    \/ Finish
    \/ \E p \in Paths : Truncate(p)

SpecShort == Init /\ [][NextShort]_vars

(* ======================= the claims ======================= *)
Called(a, b) == last[<<a, b>>] # "none"
LastCmp(a, b) == Cmp(last[<<a, b>>])

\* C1: antisymmetry of Ord::cmp: for two identities A and B that have been
\* compared in both orders, sign(cmp(A, B)) = -sign(cmp(B, A)), also when a
\* range of A or B is marked failed or a read failed during a call.
C1_Antisymmetry ==
    \A pr \in Pairs :
        Called(pr[1], pr[2]) /\ Called(pr[2], pr[1])
            => Sign(LastCmp(pr[1], pr[2])) = -Sign(LastCmp(pr[2], pr[1]))

\* C2: transitivity of Ord::cmp under the error tie-break: cmp(A, B) = Greater
\* and cmp(B, C) = Greater imply cmp(A, C) = Greater, and likewise for Less.
C2_Transitivity ==
    \A a, b, c \in Ids :
        a # b /\ b # c /\ a # c /\ Called(a, b) /\ Called(b, c) /\ Called(a, c)
            => \A o \in {"Greater", "Less"} :
                   LastCmp(a, b) = o /\ LastCmp(b, c) = o => LastCmp(a, c) = o

\* C3: transitivity of equality: once compare(A, B) and compare(B, C) have
\* returned Equal, a compare(A, C) returns Equal, whatever was compared in
\* between.
C3_EqualTransitive ==
    \A a, b, c \in Ids :
        a # b /\ b # c /\ a # c
        /\ last[<<a, b>>] = "Equal" /\ last[<<b, c>>] = "Equal"
        /\ iter.pc = "returned" /\ iter.a = a /\ iter.b = c
            => iter.res = "Equal"

\* three identities of one content, each pair found Equal by hashing
C3_Witness ==
    /\ \E a, b, c \in Ids :
          /\ a # b /\ b # c /\ a # c
          /\ last[<<a, b>>] = "Equal" /\ last[<<b, c>>] = "Equal"
          /\ iter.pc = "returned" /\ iter.a = a /\ iter.b = c /\ iter.res = "Equal"
    /\ \A i \in Ids : Len(ids[i].hashes) = 2

\* the call in flight has its result
Returned == iter.pc = "returned"
\* this step gives the call in flight its result
Returns == iter.pc # "returned" /\ iter'.pc = "returned"

NoIoInCall(it) ==
    it.opens = <<0, 0>> /\ it.reads = <<0, 0>> /\ ~it.a_file /\ ~it.b_file

AllSome(ranges) == \A k \in 1..Len(ranges) : ranges[k].some

\* two distinct identities built from one path, whose file is as it was
SameFile(a, b) ==
    a # b /\ ids[a].path = ids[b].path /\ ~modified[ids[a].path]

\* C4, as claimed: compare(A, A) = Equal for an unmodified file, for one
\* instance and for two identities built from the same path with empty caches.
C4_ReflexiveAlways ==
    Returned /\ (iter.a = iter.b \/ (SameFile(iter.a, iter.b) /\ iter.fresh))
        => iter.res = "Equal"

\* C4, amended: compare(A, A) = Equal with no I/O and no cache change for one
\* instance; for two identities built from the same unmodified path with empty
\* caches the result is Equal when no open or read fails during the call, and
\* an error when one does.
C4_ReflexiveState ==
    Returned =>
        /\ iter.a = iter.b => iter.res = "Equal" /\ NoIoInCall(iter)
        /\ SameFile(iter.a, iter.b) /\ iter.fresh =>
              /\ iter.res \in {"Equal", "Err"}
              /\ iter.res = "Equal" <=>
                    AllSome(ids[iter.a].hashes) /\ AllSome(ids[iter.b].hashes)

C4_Reflexive ==
    /\ []C4_ReflexiveState
    /\ [][Returns /\ iter'.a = iter'.b => ids' = ids /\ hashed' = hashed]_vars

\* two fresh identities of one two-chunk file compared Equal
C4_Witness ==
    /\ Returned /\ SameFile(iter.a, iter.b) /\ iter.fresh
    /\ iter.res = "Equal" /\ iter.index = 2 /\ iter.reads = <<2, 2>>

\* C5: when the metadata of A and B differ, compare(A, B) returns the metadata
\* ordering, opens no file, reads nothing and leaves both caches unchanged.
C5_ShortCircuitState ==
    Returned /\ iter.a # iter.b
    /\ MetadataCmp(ids[iter.a].metadata, ids[iter.b].metadata) # "Equal"
        => /\ iter.res = MetadataCmp(ids[iter.a].metadata, ids[iter.b].metadata)
           /\ NoIoInCall(iter)

C5_ShortCircuit ==
    /\ []C5_ShortCircuitState
    /\ [][Returns /\ iter'.a # iter'.b
          /\ MetadataCmp(ids[iter'.a].metadata, ids[iter'.b].metadata) # "Equal"
              => iter.pc = "idle" /\ ids' = ids /\ hashed' = hashed]_vars

\* files of different sizes on one device, compared after a content comparison
\* has filled a cache
C5_Witness ==
    /\ Returned /\ iter.res = "Less"
    /\ ids[iter.a].metadata.dev = ids[iter.b].metadata.dev
    /\ ids[iter.a].metadata.size < ids[iter.b].metadata.size
    /\ Len(ids[iter.b].hashes) = 2

Count(h, i) == IF i < Len(h) THEN h[i + 1] ELSE 0

\* C6: a range is hashed from disk only at an index absent from the identity's
\* cache, so every (identity, index) is hashed at most once.
C6_HashedOnce ==
    \A id \in Ids : \A k \in 1..Len(hashed[id]) : hashed[id][k] <= 1

C6_CacheReuse ==
    /\ []C6_HashedOnce
    /\ [][\A id \in Ids : \A i \in 0..Len(hashed'[id]) :
            Count(hashed'[id], i) > Count(hashed[id], i)
                => ~Has(ids[id].hashes, i) /\ Has(ids'[id].hashes, i)]_vars

\* a comparison with a second peer that found both ranges of the first
\* identity cached and hashed the peer's only
C6_Witness ==
    /\ iter.pc = "returned" /\ iter.res = "Equal" /\ iter.index = 2
    /\ iter.reads = <<0, 2>> /\ iter.opens = <<0, 1>>
    /\ hashed[iter.a] = <<1, 1>> /\ hashed[iter.b] = <<1, 1>>

\* this step computes a range for identity x and the computation fails
FailsFor(x) ==
    /\ Len(ids'[x].hashes) = Len(ids[x].hashes) + 1
    /\ ~ids'[x].hashes[Len(ids'[x].hashes)].some

\* C7: a read or open that fails while hashing a range makes the call return
\* an error; a later compare of the same pair, in either order, returns an
\* error and opens and reads nothing.
C7_FailureInjection ==
    /\ [][(\E x \in Ids : FailsFor(x)) => Returns /\ iter'.res = "Err"]_vars
    /\ [][Returns /\ iter'.a # iter'.b
          /\ (last[<<iter'.a, iter'.b>>] = "Err" \/ last[<<iter'.b, iter'.a>>] = "Err")
              => /\ iter'.res = "Err"
                 /\ NoIoInCall(iter')
                 /\ ids' = ids /\ hashed' = hashed]_vars

\* the second compare of a pair, in the other order, after a read failed at
\* the second range
C7_Witness ==
    /\ Returned /\ iter.res = "Err" /\ NoIoInCall(iter) /\ iter.index = 1
    /\ last[<<iter.b, iter.a>>] = "Err"
    /\ \E x \in {iter.a, iter.b} : Len(hashed[x]) = 2 /\ ~ids[x].hashes[2].some

FailedAt(ranges, i) == Has(ranges, i) /\ ~Get(ranges, i).some

\* C8: an index marked failed stays failed, and a comparison that reaches it
\* returns an error without reading either file and without adding to a cache.
C8_PermanentFailure ==
    /\ [][\A id \in Ids : \A i \in 0..(Len(ids[id].hashes) - 1) :
            FailedAt(ids[id].hashes, i) => FailedAt(ids'[id].hashes, i)]_vars
    /\ [][iter.pc = "next" /\ iter.start_offset < iter.end_offset
          /\ (FailedAt(ids[iter.a].hashes, iter.index)
              \/ FailedAt(ids[iter.b].hashes, iter.index))
              => /\ Returns /\ iter'.res = "Err"
                 /\ ids' = ids /\ hashed' = hashed
                 /\ iter'.opens = iter.opens /\ iter'.reads = iter.reads
                 /\ iter'.a_file = iter.a_file /\ iter'.b_file = iter.b_file]_vars

\* a comparison with a fresh peer stopped at the failed second range of the
\* other side, after hashing the peer's first range
C8_Witness ==
    /\ Returned /\ iter.res = "Err" /\ iter.index = 1
    /\ FailedAt(ids[iter.a].hashes, 1) /\ Len(ids[iter.b].hashes) = 1
    /\ iter.reads = <<0, 1>>

RECURSIVE SumSizes(_)
SumSizes(ranges) ==
    IF ranges = <<>> THEN 0 ELSE Head(ranges).size + SumSizes(Tail(ranges))

\* C9: when the content comparison of two identities returns Equal, both
\* caches hold a successful range at every index visited, the ranges are
\* pairwise equal in size and digest, and their sizes add up to total_size.
C9_EqualCoversAll ==
    Returned /\ iter.a # iter.b /\ iter.res = "Equal"
        => LET ar == ids[iter.a].hashes
               br == ids[iter.b].hashes
           IN  /\ Len(ar) = iter.index /\ Len(br) = iter.index
               /\ \A k \in 1..iter.index :
                     /\ ar[k].some /\ br[k].some
                     /\ ar[k].size = br[k].size /\ ar[k].hash = br[k].hash
               /\ SumSizes(ar) = ids[iter.a].metadata.size
               /\ SumSizes(br) = ids[iter.b].metadata.size

\* Equal returned for two files of two chunks
C9_Witness ==
    /\ Returned /\ iter.a # iter.b /\ iter.res = "Equal"
    /\ iter.index = 2 /\ ids[iter.a].metadata.size = 3000

\* The chunk sizes the schedule gives a file of total bytes: the first is
\* min(2048, total), each later one min(16 * previous, 128 MiB, bytes left).
\* (16 * previous is capped before the product is formed: 128 MiB = 16 * 8388608.)
RECURSIVE ScheduleFrom(_, _)
ScheduleFrom(prev, left) ==
    IF left = 0 THEN <<>>
    ELSE LET size == Min(Min(16 * Min(prev, 8388608), 134217728), left)
         IN  <<size>> \o ScheduleFrom(size, left - size)

Schedule(total) ==
    IF total = 0 THEN <<>>
    ELSE <<Min(2048, total)>> \o ScheduleFrom(Min(2048, total), total - Min(2048, total))

SizesOf(ranges) == [k \in 1..Len(ranges) |-> ranges[k].size]

\* C10: the range at index 0 has size min(2048, total_size) and each later one
\* min(previous * 16, 128 MiB, bytes left before total_size).
C10_GrowthSchedule ==
    \A id \in Ids :
        LET ranges == ids[id].hashes
            sched == Schedule(ids[id].metadata.size)
        IN  /\ Len(ranges) <= Len(sched)
            /\ \A k \in 1..Len(ranges) :
                  ranges[k].some =>
                      /\ ranges[k].size = sched[k]
                      /\ ranges[k].size <= 134217728
                      /\ SumSizes(SubSeq(ranges, 1, k)) <= ids[id].metadata.size

\* two identical 10 MiB files compared Equal from empty caches
C10_Witness ==
    /\ Returned /\ iter.fresh /\ iter.res = "Equal"
    /\ ids[iter.a].metadata.size = 10485760
    /\ SizesOf(ids[iter.a].hashes) = <<2048, 32768, 524288, 8388608, 1538048>>
    /\ SizesOf(ids[iter.b].hashes) = <<2048, 32768, 524288, 8388608, 1538048>>

\* C11: when the content comparison of A and B fails, cmp(A, B) is Greater,
\* partial_cmp(A, B) gives no ordering and eq(A, B) is false; cmp always gives
\* an ordering; eq(A, B) is true exactly when cmp(A, B) is Equal, for one call
\* and for a call of eq and a call of cmp on the same pair one after the other.
C11_ErrorTieBreak ==
    Returned =>
        /\ Cmp(iter.res) \in {"Less", "Equal", "Greater"}
        /\ iter.res = CmpIoErr =>
              /\ Cmp(iter.res) = "Greater"
              /\ PartialCmp(iter.res) = "None"
              /\ ~Eq(iter.res)
        /\ Eq(iter.res) <=> Cmp(iter.res) = "Equal"
        /\ iter.a # iter.b /\ Called(iter.a, iter.b) =>
              (Eq(last[<<iter.a, iter.b>>]) <=> Cmp(iter.res) = "Equal")

\* a content comparison that failed on a read of its second range
C11_Witness ==
    /\ Returned /\ iter.res = CmpIoErr /\ iter.index = 2
    /\ iter.reads[1] + iter.reads[2] >= 3
    /\ Cmp(iter.res) = "Greater"

\* C12: a FileSet built from one path and grown by pushes always has a path;
\* a push appends one path and leaves the paths already there, their order
\* and max_hardlinks as they were; links() is the larger of max_hardlinks and
\* the number of paths: 3 for max_hardlinks = 1 and three paths, 5 for
\* max_hardlinks = 5 and one path.
C12_LinksState ==
    /\ Len(fileset.paths) >= 1
    /\ Links(fileset) = IF fileset.max_hardlinks >= Len(fileset.paths)
                        THEN fileset.max_hardlinks ELSE Len(fileset.paths)
    /\ fileset.max_hardlinks = 1 /\ Len(fileset.paths) = 3 => Links(fileset) = 3
    /\ fileset.max_hardlinks = 5 /\ Len(fileset.paths) = 1 => Links(fileset) = 5

C12_LinkAccounting ==
    /\ []C12_LinksState
    /\ [][/\ fileset'.max_hardlinks = fileset.max_hardlinks
          /\ Len(fileset'.paths) = Len(fileset.paths) + 1
          /\ SubSeq(fileset'.paths, 1, Len(fileset.paths)) = fileset.paths]_fileset

\* three paths pushed in an order that is not sorted, one hardlink seen
C12_Witness ==
    /\ fileset.max_hardlinks = 1 /\ fileset.paths = <<2, 1, 2>>
    /\ Links(fileset) = 3

OpenDescriptors(it) ==
    (IF it.a_file THEN 1 ELSE 0) + (IF it.b_file THEN 1 ELSE 0)

\* C13: during one call of compare each side's path is opened at most once,
\* and only in a step that computes a range absent from that side's cache; at
\* most two descriptors are open at any point, and none once the call has
\* returned to its caller, with an ordering or with an error.
C13_DescriptorState ==
    /\ iter.opens[1] <= 1 /\ iter.opens[2] <= 1
    /\ iter.a_file => iter.opens[1] = 1
    /\ iter.b_file => iter.opens[2] = 1
    /\ OpenDescriptors(iter) <= 2
    /\ iter.pc = "idle" => OpenDescriptors(iter) = 0

C13_DescriptorLifetime ==
    /\ []C13_DescriptorState
    /\ [][iter'.opens[1] > iter.opens[1]
              => /\ iter.pc = "next"
                 /\ ~Has(ids[iter.a].hashes, iter.index)
                 /\ Has(ids'[iter.a].hashes, iter.index)]_vars
    /\ [][iter'.opens[2] > iter.opens[2]
              => /\ iter.pc = "next"
                 /\ ~Has(ids[iter.b].hashes, iter.index)
                 /\ Has(ids'[iter.b].hashes, iter.index)]_vars
    /\ [][iter.pc = "returned"
              => iter'.pc = "idle" /\ OpenDescriptors(iter') = 0]_vars

\* a call about to return an error with both descriptors open, each opened
\* once and used for two ranges
C13_Witness ==
    /\ Returned /\ iter.res = CmpIoErr
    /\ iter.a_file /\ iter.b_file
    /\ iter.opens = <<1, 1>> /\ iter.reads = <<2, 2>>

\* the byte of file f at offset k
ByteAt(f, k) == IF k >= f.len THEN -1 ELSE IF k = f.mark THEN 1 ELSE 0

\* The offsets below n at which two files can differ: every other byte is 0
\* in both, or past the end of both.
DiffOffsets(f, g, n) ==
    {k \in {f.mark, g.mark, f.len, g.len} :
        k >= 0 /\ k < n /\ ByteAt(f, k) # ByteAt(g, k)}

\* byte-by-byte equality over [0, n)
SameBytes(f, g, n) == DiffOffsets(f, g, n) = {}

FileOf(id) == disk[ids[id].path]

\* C14: for two identities with equal metadata, when no I/O error occurs,
\* compare(A, B) returns Equal if and only if the two files hold the same
\* bytes over [0, total_size), whatever the caches held before the call.
C14_ByteEquivalence ==
    Returned /\ iter.a # iter.b /\ iter.res # CmpIoErr
    /\ MetadataCmp(ids[iter.a].metadata, ids[iter.b].metadata) = "Equal"
        => (iter.res = "Equal"
                <=> SameBytes(FileOf(iter.a), FileOf(iter.b), ids[iter.a].metadata.size))

\* two files of two chunks with the same bytes found Equal; one side was
\* hashed in full by an earlier comparison with another peer, the other is
\* hashed by this call
C14_Witness ==
    /\ Returned /\ iter.res = "Equal" /\ ids[iter.a].path # ids[iter.b].path
    /\ ids[iter.a].metadata.size = 3000 /\ FileOf(iter.a).mark = 2999
    /\ iter.reads = <<2, 0>>

\* two files that differ in their last byte only, not found Equal
C14_WitnessDiffer ==
    /\ Returned /\ iter.res \in {"Less", "Greater"} /\ iter.index = 2
    /\ ~SameBytes(FileOf(iter.a), FileOf(iter.b), ids[iter.a].metadata.size)

SetMin(S) == CHOOSE x \in S : \A y \in S : x <= y

\* the index of the cached range that covers byte offset off
ChunkOf(ranges, off) ==
    CHOOSE i \in 0..(Len(ranges) - 1) :
        /\ SumSizes(SubSeq(ranges, 1, i)) <= off
        /\ off < SumSizes(SubSeq(ranges, 1, i + 1))

\* both caches hold successful, equal ranges at every index below i
EqualBelow(ar, br, i) ==
    \A j \in 0..(i - 1) :
        /\ Has(ar, j) /\ Get(ar, j).some /\ Has(br, j) /\ Get(br, j).some
        /\ RangeCmp(Get(ar, j), Get(br, j)) = "Equal"

\* C15: a comparison that finds a difference returns the ordering of the
\* first index at which the two (size, digest) pairs differ; that index is the
\* chunk holding the first differing byte; no range is hashed at an index
\* beyond it on either side; two files of one length that differ in their
\* last byte only are told apart at the last chunk of the schedule, the
\* chunks before it having compared equal.
C15_FirstDifferenceState ==
    Returned /\ iter.a # iter.b /\ iter.res # CmpIoErr
    /\ MetadataCmp(ids[iter.a].metadata, ids[iter.b].metadata) = "Equal"
        => LET ar == ids[iter.a].hashes
               br == ids[iter.b].hashes
               i == iter.index - 1
               size == ids[iter.a].metadata.size
               diffs == DiffOffsets(FileOf(iter.a), FileOf(iter.b), size)
           IN  /\ iter.res # "Equal" =>
                     /\ EqualBelow(ar, br, i)
                     /\ iter.res = RangeCmp(Get(ar, i), Get(br, i))
                     /\ diffs # {}
                     /\ ChunkOf(ar, SetMin(diffs)) = i
                     /\ ChunkOf(br, SetMin(diffs)) = i
               /\ diffs = {size - 1} =>
                     /\ iter.res \in {"Less", "Greater"}
                     /\ iter.index = Len(Schedule(size))

C15_EarlyTermination ==
    /\ []C15_FirstDifferenceState
    /\ [][\A id \in Ids : \A k \in 0..Len(hashed'[id]) :
            Count(hashed'[id], k) > Count(hashed[id], k)
                => /\ iter.pc = "next" /\ id \in {iter.a, iter.b}
                   /\ k = iter.index
                   /\ EqualBelow(ids[iter.a].hashes, ids[iter.b].hashes, k)]_vars

\* Two files of one length that differ in the last byte only, found
\* different at the last chunk; the cache of one side already reached that
\* chunk, the other side is hashed up to it by this call.
C15_Witness ==
    /\ Returned /\ iter.res \in {"Less", "Greater"}
    /\ ids[iter.a].metadata.size > InitialBufferSize
    /\ DiffOffsets(FileOf(iter.a), FileOf(iter.b), ids[iter.a].metadata.size)
           = {ids[iter.a].metadata.size - 1}
    /\ iter.index = Len(Schedule(ids[iter.a].metadata.size))
    /\ iter.reads[1] = 0 /\ iter.reads[2] = iter.index

\* C16: for any two identities of equal total size, two successful ranges
\* cached at the same index have the same size, however comparisons with
\* different peers are interleaved.
C16_RangeSizeConsistency ==
    \A x, y \in Ids :
        ids[x].metadata.size = ids[y].metadata.size
            => \A k \in 1..Min(Len(ids[x].hashes), Len(ids[y].hashes)) :
                  ids[x].hashes[k].some /\ ids[y].hashes[k].some
                      => ids[x].hashes[k].size = ids[y].hashes[k].size

\* Three identities with three successful ranges each; the last call
\* compared two files on different paths, one side from its cache alone (filled
\* by a comparison with another peer), the other hashed by the call.
C16_Witness ==
    /\ \A id \in Ids : Len(ids[id].hashes) = 3 /\ AllSome(ids[id].hashes)
    /\ iter.pc = "returned" /\ ids[iter.a].path # ids[iter.b].path
    /\ iter.reads \in {<<0, 3>>, <<3, 0>>}

\* C17: a range computed for cursor index i is appended to a cache of length
\* exactly i, so it lands at index i, and it is read from the byte offset that
\* is the sum of the sizes of the ranges before it; the sizes of the cached
\* successful ranges of an identity never add up to more than total_size.
C17_SumState ==
    \A id \in Ids : SumSizes(ids[id].hashes) <= ids[id].metadata.size

C17_IndexOffsetAlignment ==
    /\ []C17_SumState
    /\ [][\A id \in Ids :
            Len(ids'[id].hashes) # Len(ids[id].hashes)
                => /\ iter.pc = "next" /\ id \in {iter.a, iter.b}
                   /\ Len(ids[id].hashes) = iter.index
                   /\ Len(ids'[id].hashes) = iter.index + 1
                   /\ SubSeq(ids'[id].hashes, 1, iter.index) = ids[id].hashes
                   /\ AllSome(ids[id].hashes)
                   /\ iter.start_offset = SumSizes(ids[id].hashes)
                   /\ ids'[id].hashes[iter.index + 1].some
                         => ids'[id].hashes[iter.index + 1].size
                                = iter'.start_offset - iter.start_offset]_vars

\* a call that walks the three cached ranges of one side has appended the
\* first two ranges of the other side and stands at the offset of the third
C17_Witness ==
    /\ iter.pc = "next" /\ iter.index = 2 /\ iter.start_offset = 2048 + 32768
    /\ Len(ids[iter.a].hashes) = 3 /\ Len(ids[iter.b].hashes) = 2
    /\ iter.reads = <<0, 2>>
    /\ SumSizes(ids[iter.b].hashes) = iter.start_offset

\* C18: every call of compare ends with an ordering, Equal or an error: a
\* cursor step either gives the call its result or moves the byte offset
\* forward by at least one byte and not past total_size, and a read that is
\* interrupted is retried, which does not keep the call from ending when
\* interruptions do not go on forever.
C18_Termination ==
    /\ (iter.pc = "next") ~> (iter.pc = "returned")
    /\ (iter.pc = "returned") ~> (iter.pc = "idle")
    /\ [](Returned => iter.res \in Results)
    /\ [][iter.pc = "next" /\ iter'.pc = "next" /\ iter'.index # iter.index
              => /\ iter'.start_offset >= iter.start_offset + 1
                 /\ iter'.start_offset <= iter.end_offset
                 /\ iter'.index = iter.index + 1]_vars
    /\ [][iter.pc = "next" /\ iter'.pc = "next" /\ iter'.index = iter.index
              => /\ iter'.interrupts # iter.interrupts
                 /\ iter'.start_offset = iter.start_offset
                 /\ ids' = ids]_vars

\* a comparison of two 300000000-byte files that came to Equal after seven
\* ranges and an odd number of interrupted reads
C18_Witness ==
    /\ Returned /\ iter.res = "Equal" /\ iter.index = 7
    /\ iter.end_offset = 300000000 /\ iter.start_offset = iter.end_offset
    /\ iter.interrupts = 1

\* C19: once compare(A, B) has returned a result, an ordering or an error,
\* every later compare(A, B) returns the same result, whatever comparisons of
\* A or B with other peers came in between and whatever the reads of the later
\* call could do.
C19_ResultStability ==
    /\ [][Returns /\ iter'.a # iter'.b /\ Called(iter'.a, iter'.b)
              => iter'.res = last[<<iter'.a, iter'.b>>]]_vars
    /\ [](Returned /\ iter.a = iter.b => iter.res = "Equal")

\* compare(A, B) returns Less a second time, with no I/O: the cache of B was
\* filled by the first compare(A, B) alone, and a comparison of A with a third
\* identity, found Equal, has since added a range to the cache of A.
C19_Witness ==
    /\ Returned /\ iter.res = "Less" /\ iter.index = 1 /\ NoIoInCall(iter)
    /\ iter.a # iter.b /\ last[<<iter.a, iter.b>>] = "Less"
    /\ last[<<iter.b, iter.a>>] = "none"
    /\ \E c \in Ids \ {iter.a, iter.b} :
          /\ last[<<iter.b, c>>] = "none" /\ last[<<c, iter.b>>] = "none"
          /\ last[<<iter.a, c>>] = "Equal"
    /\ Len(ids[iter.a].hashes) = 2 /\ Len(ids[iter.b].hashes) = 1

\* C20: when the file ends before the requested number of bytes, from_file
\* does not fail: the range recorded is successful, its size is the chunk
\* size requested, not the number of bytes read, and its digest is that of the
\* bytes read.  With no failing I/O a shortened file leaves no failure marker
\* and no range shorter than the schedule's.
C20_ShortReadState ==
    \A id \in Ids :
        LET ranges == ids[id].hashes
            sched == Schedule(ids[id].metadata.size)
        IN  /\ Len(ranges) <= Len(sched)
            /\ \A k \in 1..Len(ranges) :
                  /\ ranges[k].some
                  /\ ranges[k].size = sched[k]
                  /\ ranges[k].hash[1] <= ranges[k].size

C20_ShortReadPolicy ==
    /\ []C20_ShortReadState
    /\ [][\A id \in Ids :
            Len(ids'[id].hashes) > Len(ids[id].hashes)
                => LET new == ids'[id].hashes[Len(ids'[id].hashes)]
                       requested == iter'.start_offset - iter.start_offset
                       left == Max(0, FileOf(id).len - iter.start_offset)
                   IN  /\ new.some
                       /\ new.size = requested
                       /\ new.hash[1] = Min(requested, left)
                       /\ new.hash = HashOfRange(FileOf(id), iter.start_offset,
                                                 requested)]_vars

\* An identity of a 3000-byte file cut to 1500 bytes holds two successful
\* ranges: 2048 bytes requested and 1500 hashed, then 952 requested and none
\* hashed.
C20_Witness ==
    \E id \in Ids :
        /\ modified[ids[id].path] /\ FileOf(id).len = 1500
        /\ Len(ids[id].hashes) = 2 /\ AllSome(ids[id].hashes)
        /\ ids[id].hashes[1].size = 2048 /\ ids[id].hashes[1].hash[1] = 1500
        /\ ids[id].hashes[2].size = 952 /\ ids[id].hashes[2].hash[1] = 0

====
